---- MODULE Spec2Model ----
(***************************************************************************)
(* Model of fast_starter's APIGenerator (generators/file_generators/       *)
(* api_generator.py): generate() and the four template producers.          *)
(*                                                                         *)
(* Generated text is a sequence of tokens.  Every token is a literal piece *)
(* of the template text of the source; the lexemes the properties speak    *)
(* about (route paths, imports, session type names, the await keyword, the *)
(* "/auth" prefix, get_current_user) are tokens of their own, so that     *)
(* "text X occurs in the file" is "token X occurs in the sequence".        *)
(* Placeholders ({name}) and the escaped braces of str.format are tokens   *)
(* too, and Format substitutes them the way str.format does.               *)
(***************************************************************************)
EXTENDS Naturals, Sequences, FiniteSets, TLC

\* ---------------------------------------------------------------- bounds
\* Project names proj1..projN and output roots /out/r1../out/rN a
\* configuration is drawn from.
NumNames == 2
NumRoots == 2

Names == { "proj" \o ToString(i) : i \in 1..NumNames }
Roots == { "/out/r" \o ToString(i) : i \in 1..NumRoots }

\* The two generator instances (two invocations of generate).
Generators == {1, 2}

\* core.config: the enums' members the generator compares against, and one
\* value outside each enum.
ProjectTypeEnum == {"GENERIC", "ML_API", "MICROSERVICE"}
AuthTypeEnum == {"NONE", "JWT"}
ProjectTypeValues == ProjectTypeEnum \cup {"UNKNOWN_TYPE"}
AuthTypeValues == AuthTypeEnum \cup {"BOGUS_AUTH"}

Configs ==
  [name : Names, path : Roots, project_type : ProjectTypeValues,
   auth_type : AuthTypeValues, is_async : BOOLEAN]

\* The configurations whose enum fields hold members of their enums.
ValidConfigs ==
  { c \in Configs : c.project_type \in ProjectTypeEnum /\ c.auth_type \in AuthTypeEnum }

\* What a write_file call can do: return, or raise an I/O error.
IOErrors == {"PermissionError", "OSError_ENOSPC"}
WriteOutcomes == {"ok"} \cup IOErrors

VARIABLES
  config,       \* config[g]: self.config of generator g
  pc,           \* pc[g]: the next write of generate(), or "done" / "failed"
  calls,        \* calls[g]: the (path, content) pairs handed to write_file
  fs,           \* the File Writer's files: path -> content
  writerError,  \* writerError[g]: the error write_file raised, or "none"
  raised        \* raised[g]: the error generate() terminated with, or "none"

vars == <<config, pc, calls, fs, writerError, raised>>

\* ------------------------------------------------------------ str.format
RECURSIVE Format(_, _)
\* template.format(**kw): a placeholder token becomes its value (a token
\* sequence, empty for ""), "{{" and "}}" become "{" and "}", the rest stays.
Format(template, kw) ==
  IF template = <<>> THEN <<>>
  ELSE LET h == Head(template)
           out == IF h = "{{" THEN <<"{">>
                  ELSE IF h = "}}" THEN <<"}">>
                  ELSE IF h \in DOMAIN kw THEN kw[h]
                  ELSE <<h>>
       IN  out \o Format(Tail(template), kw)

\* str(bool), as format() renders has_auth.
PyStr(b) == IF b THEN "True" ELSE "False"

Contains(content, tok) == \E i \in 1..Len(content) : content[i] = tok

\* BaseGenerator.get_template_vars()["project_name"]: the project's name.
get_template_vars(self) == [project_name |-> config[self].name]

\* ------------------------------------------------------------- templates
\* The lexemes the properties name.
ImportGetCurrentUser == "from app.core.security import get_current_user"
RefGetCurrentUser == "get_current_user"
ImportAsyncSession == "from sqlalchemy.ext.asyncio import AsyncSession"
ImportSession == "from sqlalchemy.orm import Session"
AwaitToken == "await "
AuthPrefix == "\"/auth\""
AuthTag == "\"authentication\""

has_auth(self) == config[self].auth_type # "NONE"

\* _get_ml_endpoints: the template text, then .format(has_auth=...).
_get_ml_endpoints(self) ==
  Format(
    << "@router.post(", "\"/predict\"", ")",
       "async def predict(input_data: dict,",
       "current_user: User = Depends(", RefGetCurrentUser, ") if ", "{has_auth}", " else None",
       "):",
       "\"\"\"Make ML prediction\"\"\"",
       "from app.services.prediction_service import make_prediction",
       "try: result = ", AwaitToken, "make_prediction(input_data)",
       "return ", "{{", "\"prediction\": result, \"status\": \"success\"", "}}",
       "except Exception as e: raise HTTPException(status_code=400, detail=str(e))",
       "@router.get(", "\"/model/info\"", ")",
       "async def get_model_info(",
       "current_user: User = Depends(", RefGetCurrentUser, ") if ", "{has_auth}", " else None",
       "):",
       "\"\"\"Get ML model information\"\"\"",
       "return ", "{{",
       "\"model_name\": \"DefaultModel\", \"version\": \"1.0.0\", \"description\": \"Machine Learning model for predictions\"",
       "}}" >>,
    [ph \in {"{has_auth}"} |-> <<PyStr(has_auth(self))>>])

\* _get_microservice_endpoints: the template text, then
\* .format(project_name=self.config.name, has_auth=...).
_get_microservice_endpoints(self) ==
  Format(
    << "@router.get(", "\"/status\"", ")",
       "async def service_status():",
       "\"\"\"Get service status\"\"\"",
       "return ", "{{", "\"service\": \"", "{project_name}",
       "\", \"status\": \"running\", \"version\": \"1.0.0\"", "}}",
       "@router.post(", "\"/process\"", ")",
       "async def process_data(data: dict,",
       "current_user: User = Depends(", RefGetCurrentUser, ") if ", "{has_auth}", " else None",
       "):",
       "\"\"\"Process data\"\"\"",
       "from app.services.processing_service import process_data",
       "try: result = ", AwaitToken, "process_data(data)",
       "return ", "{{", "\"result\": result, \"status\": \"processed\"", "}}",
       "except Exception as e: raise HTTPException(status_code=400, detail=str(e))" >>,
    [ph \in {"{project_name}", "{has_auth}"} |->
       IF ph = "{project_name}" THEN <<config[self].name>>
       ELSE <<PyStr(has_auth(self))>>])

\* database_imports with the two branches of the is_async test exchanged.
DatabaseImportsSwapped(self) ==
  IF ~config[self].is_async
  THEN <<"from app.db.database import get_db", ImportAsyncSession,
         "from app.models.auth import User">>
  ELSE <<"from app.db.database import get_db", ImportSession,
         "from app.models.auth import User">>

\* The database_imports chosen at lines 70-74.
database_imports(self) ==
  IF config[self].is_async
  THEN <<"from app.db.database import get_db", ImportAsyncSession,
         "from app.models.auth import User">>
  ELSE <<"from app.db.database import get_db", ImportSession,
         "from app.models.auth import User">>

\* The dispatch with its second test dropped (elif written as else).
ProjectSpecificElseMicroservice(self) ==
  IF config[self].project_type = "ML_API" THEN _get_ml_endpoints(self)
  ELSE _get_microservice_endpoints(self)

\* The project-specific endpoints chosen at lines 76-80; "" for any other
\* project type.
project_specific_endpoints(self) ==
  IF config[self].project_type = "ML_API" THEN _get_ml_endpoints(self)
  ELSE IF config[self].project_type = "MICROSERVICE"
       THEN _get_microservice_endpoints(self)
  ELSE <<>>

\* The endpoints template text (lines 34-58).
EndpointsTemplateText ==
  << "\"\"\"Main API Endpoints\"\"\"",
     "from fastapi import APIRouter, Depends, HTTPException, status",
     "{auth_imports}",
     "{database_imports}",
     "router = APIRouter()",
     "{auth_endpoints_include}",
     "@router.get(", "\"/\"", ")",
     "async def root():",
     "\"\"\"Root endpoint\"\"\"",
     "return ", "{{", "\"message\": \"Welcome to ", "{project_name}",
     " API\", \"version\": \"1.0.0\"", "}}",
     "@router.get(", "\"/health\"", ")",
     "async def health_check():",
     "\"\"\"Health check endpoint\"\"\"",
     "return ", "{{", "\"status\": \"healthy\", \"service\": \"", "{project_name}",
     "\"", "}}",
     "{project_specific_endpoints}" >>

\* _get_endpoints_template.
_get_endpoints_template(self) ==
  LET auth_imports == IF has_auth(self) THEN <<ImportGetCurrentUser>> ELSE <<>>
      auth_endpoints_include == <<>>
  IN  Format(EndpointsTemplateText,
        [ph \in {"{project_name}", "{auth_imports}", "{auth_endpoints_include}",
                 "{database_imports}", "{project_specific_endpoints}"} |->
           CASE ph = "{project_name}" -> <<get_template_vars(self).project_name>>
             [] ph = "{auth_imports}" -> auth_imports
             [] ph = "{auth_endpoints_include}" -> auth_endpoints_include
             [] ph = "{database_imports}" -> database_imports(self)
             [] ph = "{project_specific_endpoints}" -> project_specific_endpoints(self)])

\* _get_auth_endpoints_template: the f-string with session_import,
\* session_type and await_keyword chosen by is_async (lines 153-160).
_get_auth_endpoints_template(self) ==
  LET session_import == IF config[self].is_async THEN <<ImportAsyncSession>>
                        ELSE <<ImportSession>>
      session_type == IF config[self].is_async THEN <<"AsyncSession">>
                      ELSE <<"Session">>
      await_keyword == IF config[self].is_async THEN <<AwaitToken>> ELSE <<>>
  IN  Format(
        << "\"\"\"Authentication Endpoints\"\"\"",
           "from datetime import timedelta",
           "from fastapi import APIRouter, Depends, HTTPException, status",
           "{session_import}",
           "from app.core.config import settings",
           "from app.db.database import get_db",
           "from app.schemas.auth import Token, UserLogin, UserCreate, User as UserSchema",
           "from app.core.security import authenticate_user, create_access_token, get_current_user, create_user",
           "router = APIRouter()",
           "@router.post(", "\"/token\"", ", response_model=Token)",
           "async def login_for_access_token(user_credentials: UserLogin, db: ",
           "{session_type}", " = Depends(get_db)):",
           "\"\"\"Login endpoint to get access token\"\"\"",
           "user = ", "{await_keyword}",
           "authenticate_user(db, user_credentials.email, user_credentials.password)",
           "if not user: raise HTTPException(status_code=status.HTTP_401_UNAUTHORIZED, detail=\"Incorrect email or password\", headers=",
           "{{", "\"WWW-Authenticate\": \"Bearer\"", "}}", ")",
           "access_token_expires = timedelta(minutes=settings.ACCESS_TOKEN_EXPIRE_MINUTES)",
           "access_token = create_access_token(data=", "{{", "\"sub\": user.email", "}}",
           ", expires_delta=access_token_expires)",
           "return ", "{{", "\"access_token\": access_token, \"token_type\": \"bearer\"", "}}",
           "@router.post(", "\"/register\"",
           ", response_model=UserSchema, status_code=status.HTTP_201_CREATED)",
           "async def register_user(user_data: UserCreate, db: ",
           "{session_type}", " = Depends(get_db)):",
           "\"\"\"Register new user\"\"\"",
           "from app.core.security import get_user_by_email",
           "existing_user = ", "{await_keyword}", "get_user_by_email(db, user_data.email)",
           "if existing_user: raise HTTPException(status_code=status.HTTP_400_BAD_REQUEST, detail=\"Email already registered\")",
           "user = ", "{await_keyword}", "create_user(db, user_data.email, user_data.password)",
           "return user",
           "@router.get(", "\"/me\"", ", response_model=UserSchema)",
           "async def read_users_me(current_user: UserSchema = Depends(", RefGetCurrentUser, ")):",
           "\"\"\"Get current user information\"\"\"",
           "return current_user",
           "@router.put(", "\"/me\"", ", response_model=UserSchema)",
           "async def update_user_me(user_update: dict, current_user: UserSchema = Depends(",
           RefGetCurrentUser, "), db: ", "{session_type}", " = Depends(get_db)):",
           "\"\"\"Update current user information\"\"\"",
           "return current_user" >>,
        [ph \in {"{session_import}", "{session_type}", "{await_keyword}"} |->
           CASE ph = "{session_import}" -> session_import
             [] ph = "{session_type}" -> session_type
             [] ph = "{await_keyword}" -> await_keyword])

\* The two forms of the index file.
ComposedInit ==
  << "\"\"\"API v1 Router\"\"\"",
     "from fastapi import APIRouter",
     "from .endpoints import router as endpoints_router",
     "from .auth import router as auth_router",
     "router = APIRouter()",
     "router.include_router(endpoints_router)",
     "router.include_router(auth_router, prefix=", AuthPrefix, ", tags=[", AuthTag, "])" >>

SingleRouterInit ==
  << "\"\"\"API v1 Router\"\"\"",
     "from .endpoints import router" >>

\* _get_init_template without the auth_type test.
InitTemplateAlwaysComposed(self) == ComposedInit

\* _get_init_template.
_get_init_template(self) ==
  IF config[self].auth_type # "NONE" THEN ComposedInit ELSE SingleRouterInit

\* The endpoints path without the self.config.path prefix.
EndpointsPathNoRoot(self) == "app/api/v1/endpoints.py"

\* The three paths generate() builds from self.config.path.
EndpointsPath(self) == config[self].path \o "/app/api/v1/endpoints.py"
AuthPath(self) == config[self].path \o "/app/api/v1/auth.py"
InitPath(self) == config[self].path \o "/app/api/v1/__init__.py"

\* ------------------------------------------------------------ generate()
\* BaseGenerator.write_file(path, content): on return the file holds the
\* content; when it raises an I/O error the files are as they were.
write_file(files, path, content, out) ==
  IF out = "ok"
  THEN [p \in DOMAIN files \cup {path} |-> IF p = path THEN content ELSE files[p]]
  ELSE files

\* generate() without the auth branch.
GenerateNextNoAuth(self, at) ==
  CASE at = "endpoints" -> "init"
    [] at = "auth" -> "init"
    [] at = "init" -> "done"

\* generate() with the index written before the auth file.
GenerateNextIndexBeforeAuth(self, at) ==
  CASE at = "endpoints" -> "init"
    [] at = "init" -> IF config[self].auth_type # "NONE" THEN "auth" ELSE "done"
    [] at = "auth" -> "done"

\* The order of generate()'s write_file calls: endpoints (lines 16-19), auth
\* when auth_type != NONE (lines 22-26), then the index (lines 29-30).
generate_next(self, at) ==
  CASE at = "endpoints" -> IF config[self].auth_type # "NONE" THEN "auth" ELSE "init"
    [] at = "auth" -> "init"
    [] at = "init" -> "done"

\* generate() with each write_file call wrapped in try/except: pass.
AfterWriteSwallowed(self, at, out) ==
  [pc |-> generate_next(self, at), raised |-> "none"]

\* What generate() does when the write_file call of step `at` ends with
\* `out`: it has no try/except, so a return goes on to the next statement
\* and a raised error ends generate() with that error.
generate_after_write(self, at, out) ==
  IF out = "ok"
  THEN [pc |-> generate_next(self, at), raised |-> "none"]
  ELSE [pc |-> "failed", raised |-> out]

\* generate() with a header line counting the files already written put
\* before each content.
StepFileStamped(self, at) ==
  LET stamp == <<"# files present: " \o ToString(Cardinality(DOMAIN fs))>>
  IN  CASE at = "endpoints" ->
             [path |-> EndpointsPath(self),
              content |-> stamp \o _get_endpoints_template(self)]
        [] at = "auth" ->
             [path |-> AuthPath(self),
              content |-> stamp \o _get_auth_endpoints_template(self)]
        [] at = "init" ->
             [path |-> InitPath(self), content |-> stamp \o _get_init_template(self)]

\* The (path, content) pair generate() builds for each of its writes.
StepFile(self, at) ==
  CASE at = "endpoints" ->
         [path |-> EndpointsPath(self), content |-> _get_endpoints_template(self)]
    [] at = "auth" ->
         [path |-> AuthPath(self), content |-> _get_auth_endpoints_template(self)]
    [] at = "init" ->
         [path |-> InitPath(self), content |-> _get_init_template(self)]

\* One write_file call of generate() and what follows it.
WriteStep(self, at, out) ==
  LET file == StepFile(self, at)
      after == generate_after_write(self, at, out)
  IN  /\ calls' = [calls EXCEPT ![self] = Append(@, file)]
      /\ fs' = write_file(fs, file.path, file.content, out)
      /\ writerError' = [writerError EXCEPT ![self] = IF out = "ok" THEN @ ELSE out]
      /\ pc' = [pc EXCEPT ![self] = after.pc]
      /\ raised' = [raised EXCEPT ![self] = after.raised]
      /\ UNCHANGED config

\* Lines 16-19; outs: what the File Writer may answer.
GenerateEndpoints(self, outs) ==
  /\ pc[self] = "endpoints"
  /\ \E out \in outs : WriteStep(self, "endpoints", out)

\* Lines 22-26.
GenerateAuth(self, outs) ==
  /\ pc[self] = "auth"
  /\ \E out \in outs : WriteStep(self, "auth", out)

\* Lines 29-30.
GenerateInit(self, outs) ==
  /\ pc[self] = "init"
  /\ \E out \in outs : WriteStep(self, "init", out)

RECURSIVE RunFrom(_, _)
\* The writes of generate() from step `at` to its end, in program order,
\* with nothing else running and no write failing.
RunFrom(self, at) ==
  IF at = "done" THEN <<>>
  ELSE <<StepFile(self, at)>> \o RunFrom(self, generate_next(self, at))

\* generate() run alone.
GenerateAlone(self) == RunFrom(self, "endpoints")

InitRest ==
  /\ pc = [g \in Generators |-> "endpoints"]
  /\ calls = [g \in Generators |-> <<>>]
  /\ fs = <<>>
  /\ writerError = [g \in Generators |-> "none"]
  /\ raised = [g \in Generators |-> "none"]

\* Two independent invocations of generate() on one configuration; every
\* write_file call may return or raise.
Init ==
  /\ \E c \in Configs : config = [g \in Generators |-> c]
  /\ InitRest

Next ==
  \E self \in Generators :
    \/ GenerateEndpoints(self, WriteOutcomes)
    \/ GenerateAuth(self, WriteOutcomes)
    \/ GenerateInit(self, WriteOutcomes)

Spec == Init /\ [][Next]_vars

\* Two concurrent invocations of generate(), each on a configuration of its
\* own, with their write_file calls interleaved in any order; the File
\* Writer does not fail.
InitConc ==
  /\ config \in [Generators -> ValidConfigs]
  /\ InitRest

NextConc ==
  \E self \in Generators :
    \/ GenerateEndpoints(self, {"ok"})
    \/ GenerateAuth(self, {"ok"})
    \/ GenerateInit(self, {"ok"})

SpecConc == InitConc /\ [][NextConc]_vars

\* ------------------------------------------------------------ properties
Paths(cs) == [i \in 1..Len(cs) |-> cs[i].path]

IsPrefix(s, t) == Len(s) =< Len(t) /\ \A i \in 1..Len(s) : s[i] = t[i]

\* The pairs generator g handed to the File Writer.
Handed(g) == { calls[g][i] : i \in 1..Len(calls[g]) }

\* C1 (auth-gating): with auth_type == NONE the File Writer is handed only
\* the endpoints file and the index file, exactly those two once generate()
\* has finished; the index content is the single-router re-export form; and
\* the "/auth" text occurs in no generated file.
C1_AuthGatingNone ==
  \A g \in Generators :
    config[g].auth_type = "NONE" =>
      /\ \A f \in Handed(g) :
           /\ f.path \in {EndpointsPath(g), InitPath(g)}
           /\ f.path # AuthPath(g)
           /\ ~Contains(f.content, AuthPrefix)
           /\ f.path = InitPath(g) =>
                /\ f.content = SingleRouterInit
                /\ ~Contains(f.content, "from .auth import router as auth_router")
                /\ ~Contains(f.content, "router.include_router(endpoints_router)")
      /\ pc[g] = "done" => Paths(calls[g]) = <<EndpointsPath(g), InitPath(g)>>

C1_Witness ==
  \E g \in Generators :
    /\ config[g].auth_type = "NONE"
    /\ pc[g] = "done"
    /\ Len(calls[g]) = 2

\* C2 (auth-gating inverse): with auth_type != NONE a finished generate()
\* has handed over exactly endpoints, auth, index; the index content
\* composes the two sub-routers and mounts the auth router with the "/auth"
\* prefix and the "authentication" tag.
C2_AuthGatingInverse ==
  \A g \in Generators :
    config[g].auth_type # "NONE" =>
      /\ pc[g] = "done" =>
           Paths(calls[g]) = <<EndpointsPath(g), AuthPath(g), InitPath(g)>>
      /\ \A f \in Handed(g) :
           f.path = InitPath(g) =>
             /\ Contains(f.content, "from .endpoints import router as endpoints_router")
             /\ Contains(f.content, "from .auth import router as auth_router")
             /\ Contains(f.content, "router.include_router(endpoints_router)")
             /\ \E i \in 1..(Len(f.content) - 4) :
                  /\ f.content[i] = "router.include_router(auth_router, prefix="
                  /\ f.content[i + 1] = AuthPrefix
                  /\ f.content[i + 2] = ", tags=["
                  /\ f.content[i + 3] = AuthTag
                  /\ f.content[i + 4] = "])"

C2_Witness ==
  \E g \in Generators :
    /\ config[g].auth_type # "NONE"
    /\ pc[g] = "done"
    /\ Len(calls[g]) = 3

\* The async-idiom tokens and the sync-only token of the exclusivity claim.
AsyncTokens == {ImportAsyncSession, "AsyncSession", AwaitToken}
SyncOnlyTokens == {ImportSession}
HasAny(content, toks) == \E t \in toks : Contains(content, t)

\* C3 as stated (sync/async exclusivity): with is_async false no generated
\* file holds an async-idiom token, with is_async true none holds a
\* sync-only token, and the two sets never occur in one file.
C3_SyncAsyncExclusive ==
  \A g \in Generators :
    \A f \in Handed(g) :
      /\ ~config[g].is_async => ~HasAny(f.content, AsyncTokens)
      /\ config[g].is_async => ~HasAny(f.content, SyncOnlyTokens)
      /\ ~(HasAny(f.content, AsyncTokens) /\ HasAny(f.content, SyncOnlyTokens))

\* C3 as amended: the session import and session type follow is_async in
\* every file, and so does the await token in the auth and index files; in
\* the endpoints file the await token occurs exactly when the project type
\* is ML_API or MICROSERVICE, whatever is_async is.
C3_SyncAsyncExclusiveDb ==
  \A g \in Generators :
    \A f \in Handed(g) :
      /\ ~config[g].is_async =>
           ~HasAny(f.content, {ImportAsyncSession, "AsyncSession"})
      /\ config[g].is_async => ~HasAny(f.content, SyncOnlyTokens)
      /\ ~(HasAny(f.content, {ImportAsyncSession, "AsyncSession"})
             /\ HasAny(f.content, SyncOnlyTokens))
      /\ f.path # EndpointsPath(g) =>
           (~config[g].is_async => ~Contains(f.content, AwaitToken))
      /\ f.path = EndpointsPath(g) =>
           (Contains(f.content, AwaitToken)
              <=> config[g].project_type \in {"ML_API", "MICROSERVICE"})

C3_Witness ==
  \E g \in Generators :
    /\ ~config[g].is_async
    /\ config[g].project_type = "ML_API"
    /\ pc[g] = "done"
    /\ \E f \in Handed(g) : f.path = AuthPath(g) /\ Contains(f.content, ImportSession)
    /\ \E f \in Handed(g) : f.path = EndpointsPath(g) /\ Contains(f.content, AwaitToken)

MLRoutes == {"\"/predict\"", "\"/model/info\""}
MicroserviceRoutes == {"\"/status\"", "\"/process\""}

\* C4 (project-type dispatch): the endpoints file holds both ML routes and
\* no microservice route for ML_API, both microservice routes and no ML
\* route for MICROSERVICE, and for any other project type none of the four
\* (the root and health routes only); generate() never ends with an error
\* that is not an I/O error of the File Writer.
C4_ProjectTypeDispatch ==
  \A g \in Generators :
    /\ raised[g] \in IOErrors \cup {"none"}
    /\ \A f \in Handed(g) :
         f.path = EndpointsPath(g) =>
           /\ Contains(f.content, "\"/\"") /\ Contains(f.content, "\"/health\"")
           /\ config[g].project_type = "ML_API" =>
                /\ \A r \in MLRoutes : Contains(f.content, r)
                /\ ~HasAny(f.content, MicroserviceRoutes)
           /\ config[g].project_type = "MICROSERVICE" =>
                /\ \A r \in MicroserviceRoutes : Contains(f.content, r)
                /\ ~HasAny(f.content, MLRoutes)
           /\ config[g].project_type \notin {"ML_API", "MICROSERVICE"} =>
                /\ ~HasAny(f.content, MLRoutes \cup MicroserviceRoutes)
                /\ f.content[Len(f.content)] = "}"

C4_Witness ==
  \E g \in Generators :
    /\ config[g].project_type = "UNKNOWN_TYPE"
    /\ pc[g] = "done"
    /\ \E f \in Handed(g) : f.path = EndpointsPath(g)

\* C5 as stated (configuration errors are all-or-nothing): with an auth_type
\* or project_type outside its enum, generate() ends with a configuration
\* error and write_file is never called.
C5_ConfigErrorAllOrNothing ==
  \A g \in Generators :
    config[g] \notin ValidConfigs =>
      /\ calls[g] = <<>>
      /\ pc[g] \in {"done", "failed"} => raised[g] = "ConfigurationError"

\* The paths of a complete run, in the order of the claim.
ExpectedPaths(g) ==
  <<EndpointsPath(g)>>
    \o (IF config[g].auth_type # "NONE" THEN <<AuthPath(g)>> ELSE <<>>)
    \o <<InitPath(g)>>

\* C6 (File Writer errors are surfaced unmodified): when a write_file call
\* of generate() raises, generate() ends with that same error; the files
\* handed over are a prefix of endpoints, auth (auth_type != NONE), index;
\* and after the failure generate() makes no further write_file call.
C6_WriterErrorSurfaced ==
  /\ [](\A g \in Generators :
          /\ writerError[g] # "none" =>
               /\ pc[g] = "failed"
               /\ raised[g] = writerError[g]
          /\ raised[g] # "none" => raised[g] = writerError[g]
          /\ IsPrefix(Paths(calls[g]), ExpectedPaths(g)))
  /\ [][\A g \in Generators :
          writerError[g] # "none" =>
            /\ calls'[g] = calls[g]
            /\ raised'[g] = raised[g]
            /\ pc'[g] = pc[g]]_vars

C6_Witness ==
  \E g \in Generators :
    /\ writerError[g] = "OSError_ENOSPC"
    /\ pc[g] = "failed"
    /\ Len(calls[g]) = 2
    /\ config[g].auth_type # "NONE"

SameAsAlone(g) ==
  /\ calls[g] = GenerateAlone(g)
  /\ \A i \in 1..Len(calls[g]) :
       /\ calls[g][i].path \in DOMAIN fs
       /\ fs[calls[g][i].path] = calls[g][i].content

\* C8 as stated (concurrent generation is independent): of two concurrent
\* invocations with different configurations, each one that has finished
\* has the output it has when run alone.
C8_ConcurrentIndependent ==
  \A g, h \in Generators :
    (config[g] # config[h] /\ pc[g] = "done") => SameAsAlone(g)

\* C8 as amended: the same, for invocations whose output roots differ.
C8_ConcurrentIndependentRoots ==
  \A g, h \in Generators :
    (config[g].path # config[h].path /\ pc[g] = "done") => SameAsAlone(g)

C8_Witness ==
  /\ config[1].path # config[2].path
  /\ config[1].auth_type # config[2].auth_type
  /\ \A g \in Generators : pc[g] = "done"
  /\ Len(calls[1]) + Len(calls[2]) = 5

\* C9 as stated: the endpoints file refers to get_current_user only after
\* importing it; with auth_type == NONE it holds neither the import nor a
\* reference.
C9_GetCurrentUserImported ==
  \A g \in Generators :
    \A f \in Handed(g) :
      f.path = EndpointsPath(g) =>
        /\ config[g].auth_type = "NONE" =>
             /\ ~Contains(f.content, ImportGetCurrentUser)
             /\ ~Contains(f.content, RefGetCurrentUser)
        /\ \A k \in 1..Len(f.content) :
             f.content[k] = RefGetCurrentUser =>
               \E j \in 1..(k - 1) : f.content[j] = ImportGetCurrentUser

\* C10 (write ordering): the write_file calls come in the order endpoints,
\* auth (auth_type != NONE), index, each path at most once; the index is
\* the last file handed over, and every module its content imports has been
\* handed over before it.
C10_WriteOrdering ==
  \A g \in Generators :
    LET ps == Paths(calls[g]) IN
    /\ \A i, j \in 1..Len(ps) : ps[i] = ps[j] => i = j
    /\ \A i, j \in 1..Len(ps) :
         /\ (ps[i] = EndpointsPath(g) /\ i # j) => i < j
         /\ (ps[i] = InitPath(g) /\ i # j) => j < i
         /\ ps[i] = AuthPath(g) => config[g].auth_type # "NONE"
    /\ \A i \in 1..Len(ps) :
         ps[i] = InitPath(g) =>
           /\ i = Len(ps)
           /\ \E j \in 1..(i - 1) : ps[j] = EndpointsPath(g)
           /\ Contains(calls[g][i].content, "from .auth import router as auth_router")
                => \E j \in 1..(i - 1) : ps[j] = AuthPath(g)
    /\ pc[g] = "done" => ps[Len(ps)] = InitPath(g)

C10_Witness ==
  \E g \in Generators :
    /\ config[g].auth_type # "NONE"
    /\ Len(calls[g]) = 3
    /\ calls[g][3].path = InitPath(g)
    /\ Contains(calls[g][3].content, "from .auth import router as auth_router")

====
